---------------------------- MODULE Spec2Model ----------------------------
(***************************************************************************)
(* Lightmap tracer: ParallelFor and the three baking stages that use it    *)
(* (BakeDirectionalLight, BakeIndirectLight, FilterIndirectLight).         *)
(*                                                                         *)
(* One behaviour is one call of one entry point.  Init draws the call's    *)
(* arguments from bounded sets; the caller thread posts the async tasks,   *)
(* waits for them and returns; every posted task runs its chunk one texel  *)
(* at a time, interleaved freely with the caller and the other tasks.      *)
(*                                                                         *)
(* Numbers.  `unsigned` is 32 bits wide; a value is kept as two 16-bit     *)
(* halves so that the wrap-around of count + numThreads - 1 is computed as *)
(* the machine computes it.  Radiance (float) is kept in whole abstract    *)
(* units: a Vector3 is one number (the three channels are treated alike),  *)
(* a Vector4 is [rgb, a].                                                  *)
(***************************************************************************)
EXTENDS Integers, Sequences, FiniteSets, TLC

(* ------------------------------ bounds --------------------------------- *)

\* Largest buffer length (texels of a chart) of a modelled call.
MaxTexels == 3

\* Largest numThreads of a modelled call.
MaxThreads == 2

(* ------------------------- unsigned arithmetic ------------------------- *)

\* Width of `unsigned`.
UnsignedBits == 32

\* 2^n.
RECURSIVE Pow2(_)
Pow2(n) == IF n = 0 THEN 1 ELSE 2 * Pow2(n - 1)

\* One half of an unsigned value counts in this base.
Half == Pow2(UnsignedBits \div 2)

\* The unsigned value hi * Half + lo.
U32(n) == [hi |-> n \div Half, lo |-> n % Half]

\* The largest unsigned value, 2^32 - 1.
UMax == [hi |-> Half - 1, lo |-> Half - 1]

\* a + b, wrapping modulo 2^32.
UAdd(a, b) ==
    LET lo == a.lo + b.lo
    IN  [hi |-> (a.hi + b.hi + lo \div Half) % Half, lo |-> lo % Half]

\* a - b, wrapping modulo 2^32.
USub(a, b) ==
    LET borrow == IF a.lo < b.lo THEN 1 ELSE 0
    IN  [hi |-> (a.hi - b.hi - borrow + 2 * Half) % Half,
         lo |-> (a.lo - b.lo + Half) % Half]

\* a * n for a small n, wrapping modulo 2^32.
UMul(a, n) ==
    LET lo == a.lo * n
    IN  [hi |-> (a.hi * n + lo \div Half) % Half, lo |-> lo % Half]

\* a / n (unsigned division) for a small n >= 1.
UDiv(a, n) ==
    [hi |-> a.hi \div n, lo |-> ((a.hi % n) * Half + a.lo) \div n]

\* a < b.
ULess(a, b) == a.hi < b.hi \/ (a.hi = b.hi /\ a.lo < b.lo)

\* a <= b.
ULeq(a, b) == a = b \/ ULess(a, b)

\* ea::min(a, b).
UMin(a, b) == IF ULess(b, a) THEN b ELSE a

\* The number an unsigned value of a modelled buffer stands for.
ToNat(a) == a.hi * Half + a.lo

(* ------------------------------ the call ------------------------------- *)

VARIABLES
    stage,          \* the entry point called
    numThreads,     \* ParallelFor's numThreads (settings.numThreads_)
    count,          \* ParallelFor's count, an unsigned value
    width,          \* chart width (bakedGeometry)
    height,         \* chart height (bakedGeometry)
    geometryIds_,   \* bakedGeometry.geometryIds_
    numBounces_,    \* settings.numBounces_
    kernelRadius_,  \* params.kernelRadius_
    upscale_,       \* params.upscale_
    lightColor,     \* light.color_ (BakeDirectionalLight)
    bakedDirect,    \* bakedDirect.light_ (bakedDirect[0].light_ for the indirect baker)
    bakedIndirect,  \* [light_, lightSwap_]
    kernelWeights,  \* the span GetKernel returned
    chunkSize,      \* ParallelFor's chunkSize, an unsigned value
    tasks,          \* ParallelFor's vector of futures, one record per posted task
    waited,         \* how many futures the wait loop has waited for
    pc,             \* where the calling thread is
    hist            \* what the call started from and what its tasks did (history)

vars == <<stage, numThreads, count, width, height, geometryIds_, numBounces_,
          kernelRadius_, upscale_, lightColor, bakedDirect, bakedIndirect,
          kernelWeights, chunkSize, tasks, waited, pc, hist>>

\* The arguments of a call, which no step changes.
args == <<stage, numThreads, count, width, height, geometryIds_, numBounces_,
          kernelRadius_, upscale_, lightColor>>

\* Texel indices of a buffer of n elements.
Indices(n) == 0 .. (n - 1)

\* Texel indices of the chart of this call.
Texels == Indices(width * height)

\* Capacity of the per-task bounce arrays, LightmapTracingSettings::MaxBounces.
\* The header that sets it is not among the files at hand; the model keeps
\* a small capacity.
MaxBounces == 2

\* A slot of incomingSamples / incomingFactors that the bounce loop of the
\* current texel has not written.
Unwritten == -1

\* A task as ParallelFor posts it: not started, nothing read or written.
PostedTask ==
    [status |-> "posted", fromIndex |-> U32(0), toIndex |-> U32(0), index |-> U32(0),
     reads |-> {}, writes |-> {}]

\* Indices of the posted tasks (task k is the lambda that captured i = k - 1).
Posted == 1 .. Len(tasks)

\* A wait that returns whether or not the task has finished.
ReadyWithoutWaiting(k) == k \in Posted

\* The future of task k is ready: its lambda returned or threw.
Ready(k) == tasks[k].status \in {"done", "failed"}

(* ----------------------------- ParallelFor ----------------------------- *)

\* chunkSize = (count + numThreads - 1) / numThreads, in unsigned arithmetic.
ChunkSize(cnt, n) == UDiv(USub(UAdd(cnt, U32(n)), U32(1)), n)

\* fromIndex = i * chunkSize.
FromIndex(i, cs) == UMul(cs, i)

\* toIndex = ea::min(fromIndex + chunkSize, count).
ToIndex(from, cs, cnt) == UMin(UAdd(from, cs), cnt)

\* tasks.push_back(std::async(...)): the loop posts one task per thread.
PostTask ==
    /\ pc = "fork"
    /\ Len(tasks) < numThreads
    /\ tasks' = Append(tasks, PostedTask)
    /\ UNCHANGED <<args, bakedDirect, bakedIndirect, kernelWeights, chunkSize,
                   waited, pc, hist>>

\* A posted task starts to run: the lambda computes its range from the i it
\* captured and calls the callback with it.
StartTask(k) ==
    /\ pc = "fork"
    /\ tasks[k].status = "posted"
    /\ LET from == FromIndex(k - 1, chunkSize)
       IN  tasks' = [tasks EXCEPT ![k] = [@ EXCEPT !.status = "running",
                                                   !.fromIndex = from,
                                                   !.toIndex = ToIndex(from, chunkSize, count),
                                                   !.index = from]]
    /\ UNCHANGED <<args, bakedDirect, bakedIndirect, kernelWeights, chunkSize,
                   waited, pc, hist>>

\* The callback of a bare ParallelFor call returns.
CallbackReturn(k) ==
    /\ pc = "fork"
    /\ stage = "ParallelFor"
    /\ tasks[k].status = "running"
    /\ tasks' = [tasks EXCEPT ![k].status = "done"]
    /\ UNCHANGED <<args, bakedDirect, bakedIndirect, kernelWeights, chunkSize,
                   waited, pc, hist>>

\* The callback of a bare ParallelFor call throws: std::async keeps the
\* exception in the future's shared state.
CallbackThrow(k) ==
    /\ pc = "fork"
    /\ stage = "ParallelFor"
    /\ tasks[k].status = "running"
    /\ tasks' = [tasks EXCEPT ![k].status = "failed"]
    /\ UNCHANGED <<args, bakedDirect, bakedIndirect, kernelWeights, chunkSize,
                   waited, pc, hist>>

\* A stage's callback leaves its texel loop (index < toIndex is false) and returns.
TaskDone(k) ==
    /\ pc = "fork"
    /\ stage # "ParallelFor"
    /\ tasks[k].status = "running"
    /\ ~ULess(tasks[k].index, tasks[k].toIndex)
    /\ tasks' = [tasks EXCEPT ![k].status = "done"]
    /\ UNCHANGED <<args, bakedDirect, bakedIndirect, kernelWeights, chunkSize,
                   waited, pc, hist>>

\* task.wait() returns for the next future of the wait loop (wait() blocks
\* until the future is ready and does not rethrow what the task threw).
WaitTask ==
    /\ pc = "fork"
    /\ Len(tasks) = numThreads
    /\ waited < Len(tasks)
    /\ Ready(waited + 1)
    /\ waited' = waited + 1
    /\ UNCHANGED <<args, bakedDirect, bakedIndirect, kernelWeights, chunkSize,
                   tasks, pc, hist>>

\* The wait loop is over: ParallelFor returns to its caller.
ParallelForReturn ==
    /\ pc = "fork"
    /\ Len(tasks) = numThreads
    /\ waited = Len(tasks)
    /\ pc' = "joined"
    /\ UNCHANGED <<args, bakedDirect, bakedIndirect, kernelWeights, chunkSize,
                   tasks, waited, hist>>

\* A bare ParallelFor call: chunkSize is computed before the first task is posted.
ParallelForCall ==
    /\ pc = "entry"
    /\ stage = "ParallelFor"
    /\ chunkSize' = ChunkSize(count, numThreads)
    /\ pc' = "fork"
    /\ UNCHANGED <<args, bakedDirect, bakedIndirect, kernelWeights, tasks, waited, hist>>

(* --------------------------- the texel loops --------------------------- *)

\* The buffer elements a task reads and writes are named <<buffer, index>>.
Direct(i) == <<"bakedDirect.light_", i>>
Light(i) == <<"bakedIndirect.light_", i>>
LightSwap(i) == <<"bakedIndirect.lightSwap_", i>>

\* What one texel of the indirect baker did (history): the texel, the number of
\* recorded bounces, the value its accumulation loop produced, the fold of the
\* pairs the texel recorded, and whether every slot the loop read had been
\* written for this texel.  hist.misfolded keeps this for the first texel whose
\* loop did not produce exactly the fold of its own pairs, and is NoTexel while
\* there is none.
NoTexel == [index |-> 0, numSamples |-> 0, added |-> 0, folded |-> 0, fresh |-> TRUE]

\* ++i of a texel loop; the elements the iteration read and wrote are noted.
NextTexel(k, reads, writes) ==
    tasks' = [tasks EXCEPT ![k] = [@ EXCEPT !.index = UAdd(@, U32(1)),
                                            !.reads = @ \cup reads,
                                            !.writes = @ \cup writes]]

\* if (!geometryId) continue;  -- the same in the three stages.
SkipTexel(k) ==
    /\ pc = "fork"
    /\ stage # "ParallelFor"
    /\ tasks[k].status = "running"
    /\ ULess(tasks[k].index, tasks[k].toIndex)
    /\ LET i == ToNat(tasks[k].index)
       IN  /\ geometryIds_[i] = 0
           /\ NextTexel(k, {}, {})
           /\ hist' = [hist EXCEPT !.visited = @ \cup {i}]
    /\ UNCHANGED <<args, bakedDirect, bakedIndirect, kernelWeights, chunkSize, waited, pc>>

(* ------------------------- BakeDirectionalLight ------------------------ *)

\* shadowFactor: 1 when the shadow ray hits nothing, 0 otherwise (the scene
\* decides; the model takes either).
ShadowFactors == {0, 1}

\* directLight = max(0, smoothNormal . rayDirection), in whole units.
DirectLights == {0, 1}

\* bakedDirect.light_[i] += lightColor * shadowFactor * directLight.
DirectTexel(k) ==
    /\ pc = "fork"
    /\ stage = "BakeDirectionalLight"
    /\ tasks[k].status = "running"
    /\ ULess(tasks[k].index, tasks[k].toIndex)
    /\ LET i == ToNat(tasks[k].index)
       IN  /\ geometryIds_[i] # 0
           /\ \E shadowFactor \in ShadowFactors, directLight \in DirectLights :
                  bakedDirect' = [bakedDirect EXCEPT
                                     ![i] = @ + lightColor * shadowFactor * directLight]
           /\ NextTexel(k, {Direct(i)}, {Direct(i)})
           /\ hist' = [hist EXCEPT !.visited = @ \cup {i}]
    /\ UNCHANGED <<args, bakedIndirect, kernelWeights, chunkSize, waited, pc>>

\* BakeDirectionalLight: ParallelFor(bakedDirect.light_.size(), settings.numThreads_, ...).
BakeDirectionalLightCall ==
    /\ pc = "entry"
    /\ stage = "BakeDirectionalLight"
    /\ chunkSize' = ChunkSize(count, numThreads)
    /\ pc' = "fork"
    /\ UNCHANGED <<args, bakedDirect, bakedIndirect, kernelWeights, tasks, waited, hist>>

(* --------------------------- BakeIndirectLight ------------------------- *)

\* incomingFactors[j] = brdf * cosTheta / probability, in whole units.
Factors == {2}

\* What a read of a never-written array slot may yield.
Indeterminate == [sample : {0, 1}, factor : Factors]

\* The texels of bakedDirect[0] a hit is sampled from: the scene is one whose
\* hits land on the first two texels of the chart (one dark, one lit).
HitTexels == DOMAIN bakedDirect \cap {0, 1}

\* One bounce: the ray misses, or hits a point whose lightmap UV is nearest
\* to texel `texel` of bakedDirect[0], with weight `factor`.
Miss == [hit |-> FALSE, texel |-> 0, factor |-> 0]
BounceOutcomes ==
    {Miss} \cup [hit : {TRUE}, texel : HitTexels, factor : Factors]

\* The bounce loop of one texel from bounce j on.  st is the two arrays with
\* numSamples, the slots written for this texel, and whether a write went past
\* the end of the arrays.
RECURSIVE BounceLoop(_, _, _)
BounceLoop(j, st, outcomes) ==
    IF j >= numBounces_ \/ st.overrun THEN st
    ELSE IF ~outcomes[j + 1].hit THEN BounceLoop(j + 1, st, outcomes)
    ELSE IF j >= MaxBounces THEN [st EXCEPT !.overrun = TRUE]
    ELSE BounceLoop(j + 1,
                    [st EXCEPT !.incomingSamples[j] = bakedDirect[outcomes[j + 1].texel],
                               !.incomingFactors[j] = outcomes[j + 1].factor,
                               !.numSamples = @ + 1,
                               !.written = @ \cup {j}],
                    outcomes)

\* The arrays as a texel finds them: a slot holds what no one has written, or
\* what an earlier texel of the task left there; either way the texel did not
\* write it, and a read of it yields some value of Indeterminate.
TexelStart ==
    [incomingSamples |-> [j \in Indices(MaxBounces) |-> Unwritten],
     incomingFactors |-> [j \in Indices(MaxBounces) |-> Unwritten],
     numSamples |-> 0, written |-> {}, overrun |-> FALSE]

\* for (j = numSamples - 1; j >= 0; --j) { indirectLighting += incomingSamples[j];
\*                                         indirectLighting *= incomingFactors[j]; }
RECURSIVE AccumulateFrom(_, _, _, _)
AccumulateFrom(j, acc, samples, factors) ==
    IF j < 0 THEN acc
    ELSE AccumulateFrom(j - 1, (acc + samples[j]) * factors[j], samples, factors)

\* The first slot the accumulation loop reads.
AccumulateStart(numSamples) == numSamples - 1

\* An accumulation loop whose accumulator does not start from zero.
AccumulateFromOne(samples, factors, numSamples) ==
    AccumulateFrom(AccumulateStart(numSamples), 1, samples, factors)

\* The accumulation loop of one texel.
Accumulate(samples, factors, numSamples) ==
    AccumulateFrom(AccumulateStart(numSamples), 0, samples, factors)

\* The slots the accumulation loop reads.
SlotsRead(numSamples) == 0 .. AccumulateStart(numSamples)

\* An array as the accumulation loop reads it: a never-written slot yields g.
ReadSlots(array, g) == [j \in DOMAIN array |-> IF array[j] = Unwritten THEN g ELSE array[j]]

\* The (sample, weight) pairs a texel records, one per hit bounce, in bounce order.
RECURSIVE Recorded(_, _)
Recorded(j, outcomes) ==
    IF j > Len(outcomes) THEN <<>>
    ELSE IF outcomes[j].hit
         THEN <<[sample |-> bakedDirect[outcomes[j].texel], weight |-> outcomes[j].factor]>>
              \o Recorded(j + 1, outcomes)
         ELSE Recorded(j + 1, outcomes)

\* accumulator = (accumulator + sample) * weight over the pairs, last to first.
RECURSIVE FoldBack(_, _)
FoldBack(pairs, acc) ==
    IF pairs = <<>> THEN acc
    ELSE FoldBack(SubSeq(pairs, 1, Len(pairs) - 1),
                  (acc + pairs[Len(pairs)].sample) * pairs[Len(pairs)].weight)

\* One texel of the indirect baker: the bounce loop, the accumulation loop and
\* bakedIndirect.light_[i] += Vector4(indirectLighting, 1).  A write past the
\* end of the arrays is undefined behaviour: the model stops there.  A hit
\* samples bakedDirect[0] at the nearest texel of some UV: the task is noted
\* to read the buffer.
IndirectTexel(k) ==
    /\ pc = "fork"
    /\ stage = "BakeIndirectLight"
    /\ tasks[k].status = "running"
    /\ ULess(tasks[k].index, tasks[k].toIndex)
    /\ geometryIds_[ToNat(tasks[k].index)] # 0
    /\ \E outcomes \in [1 .. numBounces_ -> BounceOutcomes] :
         LET i == ToNat(tasks[k].index)
             st == BounceLoop(0, TexelStart, outcomes)
             unwritten == \E j \in SlotsRead(st.numSamples) : st.incomingSamples[j] = Unwritten
         IN  IF st.overrun
             THEN /\ pc' = "ub"
                  /\ UNCHANGED <<bakedIndirect, tasks, hist>>
             ELSE \E g \in IF unwritten THEN Indeterminate ELSE {CHOOSE x \in Indeterminate : TRUE} :
                    LET indirectLighting ==
                            Accumulate(ReadSlots(st.incomingSamples, g.sample),
                                       ReadSlots(st.incomingFactors, g.factor), st.numSamples)
                        folded == FoldBack(Recorded(1, outcomes), 0)
                        fresh == SlotsRead(st.numSamples) \subseteq st.written
                    IN  /\ bakedIndirect' =
                               [bakedIndirect EXCEPT
                                   !.light_[i] = [rgb |-> @.rgb + indirectLighting, a |-> @.a + 1]]
                        /\ NextTexel(k,
                                     {Light(i)} \cup IF st.numSamples > 0
                                                     THEN {Direct(t) : t \in DOMAIN bakedDirect}
                                                     ELSE {},
                                     {Light(i)})
                        /\ hist' = [hist EXCEPT
                               !.visited = @ \cup {i},
                               !.anyHit = @ \/ st.numSamples > 0,
                               !.misfolded =
                                   IF @ # NoTexel \/ (indirectLighting = folded /\ fresh) THEN @
                                   ELSE [index |-> i, numSamples |-> st.numSamples,
                                         added |-> indirectLighting, folded |-> folded,
                                         fresh |-> fresh]]
                        /\ pc' = pc
    /\ UNCHANGED <<args, bakedDirect, kernelWeights, chunkSize, waited>>

\* assert(settings.numBounces_ <= LightmapTracingSettings::MaxBounces).
BouncesAsserted == numBounces_ <= MaxBounces

\* BakeIndirectLight with the assertion holding, or compiled out (NDEBUG).
BakeIndirectLightCall ==
    /\ pc = "entry"
    /\ stage = "BakeIndirectLight"
    /\ chunkSize' = ChunkSize(count, numThreads)
    /\ pc' = "fork"
    /\ UNCHANGED <<args, bakedDirect, bakedIndirect, kernelWeights, tasks, waited, hist>>

\* BakeIndirectLight with the assertion failing in a build that checks it.
BakeIndirectLightAbort ==
    /\ pc = "entry"
    /\ stage = "BakeIndirectLight"
    /\ ~BouncesAsserted
    /\ pc' = "abort"
    /\ UNCHANGED <<args, bakedDirect, bakedIndirect, kernelWeights, chunkSize, tasks,
                   waited, hist>>

(* -------------------------- FilterIndirectLight ------------------------ *)

\* GetKernel: the weights in sixteenths ({1}, {2/4, 1/4}, {6/16, 4/16, 1/16});
\* the default branch returns the empty span once assert(0) is passed.
GetKernel(radius) ==
    CASE radius = 0 -> <<16>>
      [] radius = 1 -> <<8, 4>>
      [] radius = 2 -> <<6, 4, 1>>
      [] OTHER -> <<>>

\* The radii GetKernel has a kernel for.
KernelAsserted == kernelRadius_ \in {0, 1, 2}

\* kernelWeights[j] of the span (spans count from 0).
Kernel(j) == kernelWeights[j + 1]

\* Color{x, y, z}.Luma() of a grey value.
GetLuminance(color) == color.rgb

\* Abs.
Abs(x) == IF x < 0 THEN -x ELSE x

\* ea::max.
Max(a, b) == IF a < b THEN b ELSE a

\* An edge weight of 1, in the quarters edge weights are counted in.
EdgeWeightOne == Pow2(2)

\* CalculateEdgeWeight = exp(-colorWeight - positionWeight) * normalWeight for
\* a chart whose texels share position and normal (positionWeight = 0,
\* normalWeight = 1) and luminanceSigma = 1 / ln 2: the weight halves with
\* every unit of luminance difference, and is rounded down to quarters.
CalculateEdgeWeight(luminance1, luminance2) ==
    EdgeWeightOne \div Pow2(Abs(luminance1 - luminance2))

\* M_EPSILON, in the units colorWeight is counted in, rounded down.
Epsilon == 0

\* bakedGeometry.IndexToLocation.
IndexToLocation(index) == [x |-> index % width, y |-> index \div width]

\* bakedGeometry.IsValidLocation.
IsValidLocation(location) ==
    /\ 0 <= location.x /\ location.x < width
    /\ 0 <= location.y /\ location.y < height

\* bakedGeometry.LocationToIndex.
LocationToIndex(location) == location.x + location.y * width

\* The sum of f over S.
RECURSIVE Sum(_, _)
Sum(f, S) ==
    IF S = {} THEN 0
    ELSE LET x == CHOOSE y \in S : TRUE IN f[x] + Sum(f, S \ {x})

\* The offsets (dx, dy) of the two kernel loops whose texel is used: not the
\* centre, inside the chart, with geometry.
Taps(index) ==
    {d \in (-kernelRadius_ .. kernelRadius_) \X (-kernelRadius_ .. kernelRadius_) :
        /\ d # <<0, 0>>
        /\ LET otherLocation == [x |-> IndexToLocation(index).x + d[1] * upscale_,
                                 y |-> IndexToLocation(index).y + d[2] * upscale_]
           IN  /\ IsValidLocation(otherLocation)
               /\ geometryIds_[LocationToIndex(otherLocation)] # 0}

\* otherIndex of a tap.
OtherIndex(index, d) ==
    LocationToIndex([x |-> IndexToLocation(index).x + d[1] * upscale_,
                     y |-> IndexToLocation(index).y + d[2] * upscale_])

\* colorSum / ea::max(M_EPSILON, colorWeight) of one texel, read from buffer `light`.
FilteredColor(light, index) ==
    LET centerColor == light[index]
        taps == Taps(index)
        tapWeight == [d \in taps |->
                        CalculateEdgeWeight(GetLuminance(centerColor),
                                            GetLuminance(light[OtherIndex(index, d)]))
                        * Kernel(Abs(d[1])) * Kernel(Abs(d[2]))]
        centerWeight == Kernel(0) * Kernel(0) * EdgeWeightOne
        colorWeight == centerWeight + Sum(tapWeight, taps)
        sumRgb == centerColor.rgb * centerWeight
                  + Sum([d \in taps |-> light[OtherIndex(index, d)].rgb * tapWeight[d]], taps)
        sumA == centerColor.a * centerWeight
                + Sum([d \in taps |-> light[OtherIndex(index, d)].a * tapWeight[d]], taps)
    IN  [rgb |-> sumRgb \div Max(Epsilon, colorWeight),
         a |-> sumA \div Max(Epsilon, colorWeight)]

\* A filter that writes its result back into the buffer it reads.
FilterInPlace == "light_"

\* The buffer a filter task writes its texel to.
FilterTarget == "lightSwap_"

\* The element of the target buffer a filter task writes for texel i.
FilterWrite(i) == IF FilterTarget = "lightSwap_" THEN LightSwap(i) ELSE Light(i)

\* One texel of the filter: read light_ at the texel and at its taps, write
\* lightSwap_ at the texel.  With the empty span, kernelWeights[0] is read out
\* of bounds: undefined behaviour, and the model stops there.
FilterTexel(k) ==
    /\ pc = "fork"
    /\ stage = "FilterIndirectLight"
    /\ tasks[k].status = "running"
    /\ ULess(tasks[k].index, tasks[k].toIndex)
    /\ LET i == ToNat(tasks[k].index)
       IN  /\ geometryIds_[i] # 0
           /\ IF kernelWeights = <<>>
              THEN /\ pc' = "ub"
                   /\ UNCHANGED <<bakedIndirect, tasks, hist>>
              ELSE /\ bakedIndirect' =
                          [bakedIndirect EXCEPT
                              ![FilterTarget][i] = FilteredColor(bakedIndirect.light_, i)]
                   /\ NextTexel(k,
                                {Light(i)} \cup {Light(OtherIndex(i, d)) : d \in Taps(i)},
                                {FilterWrite(i)})
                   /\ hist' = [hist EXCEPT !.visited = @ \cup {i}]
                   /\ pc' = pc
    /\ UNCHANGED <<args, bakedDirect, kernelWeights, chunkSize, waited>>

\* FilterIndirectLight with a kernel for the radius, or with assert(0)
\* compiled out (NDEBUG): GetKernel returns and ParallelFor is called.
FilterIndirectLightCall ==
    /\ pc = "entry"
    /\ stage = "FilterIndirectLight"
    /\ kernelWeights' = GetKernel(kernelRadius_)
    /\ chunkSize' = ChunkSize(count, numThreads)
    /\ pc' = "fork"
    /\ UNCHANGED <<args, bakedDirect, bakedIndirect, tasks, waited, hist>>

\* FilterIndirectLight with no kernel for the radius in a build that checks
\* assert(0).
FilterIndirectLightAbort ==
    /\ pc = "entry"
    /\ stage = "FilterIndirectLight"
    /\ ~KernelAsserted
    /\ pc' = "abort"
    /\ UNCHANGED <<args, bakedDirect, bakedIndirect, kernelWeights, chunkSize, tasks,
                   waited, hist>>

\* ea::swap(bakedIndirect.light_, bakedIndirect.lightSwap_), and the filter returns.
FilterSwap ==
    /\ pc = "joined"
    /\ stage = "FilterIndirectLight"
    /\ bakedIndirect' = [light_ |-> bakedIndirect.lightSwap_,
                         lightSwap_ |-> bakedIndirect.light_]
    /\ pc' = "returned"
    /\ UNCHANGED <<args, bakedDirect, kernelWeights, chunkSize, tasks, waited, hist>>

\* The two bakers (and a bare ParallelFor call) return once ParallelFor has.
Return ==
    /\ pc = "joined"
    /\ stage # "FilterIndirectLight"
    /\ pc' = "returned"
    /\ UNCHANGED <<args, bakedDirect, bakedIndirect, kernelWeights, chunkSize, tasks,
                   waited, hist>>

(* ------------------------------ the calls ------------------------------ *)

\* Buffers of n elements: all v, and alternating 0 and 1.
Fill(n, v) == [i \in Indices(n) |-> v]
Stripes(n) == [i \in Indices(n) |-> i % 2]

\* Vector4 buffers of n elements: as allocated (zero), and as a bake pass
\* leaves them (alpha 1, some radiance).
Zero4(n) == [i \in Indices(n) |-> [rgb |-> 0, a |-> 0]]
Ramp4(n) == [i \in Indices(n) |-> [rgb |-> i + 1, a |-> 1]]

\* Chart sizes (width, height) of at most MaxTexels texels.
Charts ==
    {c \in (0 .. MaxTexels) \X (0 .. MaxTexels) :
        c[1] * c[2] <= MaxTexels /\ (c[1] = 0 <=> c[2] = 0)}

\* Charts of one row, for the stages that do not look at locations.
RowCharts == {c \in Charts : c[2] <= 1}

\* The counts of a bare ParallelFor call: small ones, and the largest ones.
Counts ==
    {U32(n) : n \in 0 .. MaxTexels + 1} \cup {USub(UMax, U32(n)) : n \in 0 .. MaxThreads}

\* What every call starts from, given its arguments and buffers.
Start(s, n, c, ids, direct, light, swap) ==
    /\ stage = s
    /\ numThreads = n
    /\ width = c[1]
    /\ height = c[2]
    /\ geometryIds_ = ids
    /\ bakedDirect = direct
    /\ bakedIndirect = [light_ |-> light, lightSwap_ |-> swap]
    /\ kernelWeights = <<>>
    /\ chunkSize = U32(0)
    /\ tasks = <<>>
    /\ waited = 0
    /\ pc = "entry"
    /\ hist = [light0 |-> light, swap0 |-> swap, direct0 |-> direct, visited |-> {},
               anyHit |-> FALSE, misfolded |-> NoTexel]

InitParallelFor ==
    /\ \E n \in 1 .. MaxThreads + 1 :
          Start("ParallelFor", n, <<0, 0>>, Fill(0, 0), Fill(0, 0), Zero4(0), Zero4(0))
    /\ count \in Counts
    /\ numBounces_ = 0 /\ kernelRadius_ = 0 /\ upscale_ = 1 /\ lightColor = 0

InitDirect ==
    /\ \E n \in 1 .. MaxThreads, c \in RowCharts :
          \E ids \in [Indices(c[1] * c[2]) -> {0, 1}],
             direct \in {Fill(c[1] * c[2], 0), Stripes(c[1] * c[2])} :
                /\ Start("BakeDirectionalLight", n, c, ids, direct, Zero4(0), Zero4(0))
                /\ count = U32(c[1] * c[2])
    /\ lightColor \in {1, 2}
    /\ numBounces_ = 0 /\ kernelRadius_ = 0 /\ upscale_ = 1

InitIndirect ==
    /\ \E n \in 1 .. MaxThreads, c \in RowCharts :
          \E ids \in [Indices(c[1] * c[2]) -> {0, 1}],
             light \in {Ramp4(c[1] * c[2])} :
                /\ Start("BakeIndirectLight", n, c, ids, Stripes(c[1] * c[2]), light,
                         Zero4(c[1] * c[2]))
                /\ count = U32(c[1] * c[2])
    /\ numBounces_ \in 0 .. MaxBounces + 1
    /\ kernelRadius_ = 0 /\ upscale_ = 1 /\ lightColor = 0

InitFilter ==
    /\ \E n \in 1 .. MaxThreads, c \in Charts :
          \E ids \in [Indices(c[1] * c[2]) -> {0, 1}],
             light \in {Zero4(c[1] * c[2]), Ramp4(c[1] * c[2])},
             swap \in {Zero4(c[1] * c[2]), Ramp4(c[1] * c[2])} :
                /\ Start("FilterIndirectLight", n, c, ids, Fill(0, 0), light, swap)
                /\ count = U32(c[1] * c[2])
    /\ kernelRadius_ \in -1 .. 3
    /\ upscale_ \in {1, 2}
    /\ numBounces_ = 0 /\ lightColor = 0

Init == InitParallelFor \/ InitDirect \/ InitIndirect \/ InitFilter

Next ==
    \/ ParallelForCall
    \/ BakeDirectionalLightCall
    \/ BakeIndirectLightCall
    \/ BakeIndirectLightAbort
    \/ FilterIndirectLightCall
    \/ FilterIndirectLightAbort
    \/ PostTask
    \/ \E k \in Posted : StartTask(k)
    \/ \E k \in Posted : CallbackReturn(k)
    \/ \E k \in Posted : CallbackThrow(k)
    \/ \E k \in Posted : SkipTexel(k)
    \/ \E k \in Posted : DirectTexel(k)
    \/ \E k \in Posted : IndirectTexel(k)
    \/ \E k \in Posted : FilterTexel(k)
    \/ \E k \in Posted : TaskDone(k)
    \/ WaitTask
    \/ ParallelForReturn
    \/ FilterSwap
    \/ Return

Spec == Init /\ [][Next]_vars

(* ------------------------------ the claims ----------------------------- *)

\* ParallelFor has returned to the entry point that called it.
Joined == pc \in {"joined", "returned"}

\* The tasks whose lambda has called the callback, with the range it passed.
Invoked == {k \in Posted : tasks[k].status # "posted"}

\* Index p lies in the half-open range task k passed to the callback.
InRange(p, k) == ULeq(tasks[k].fromIndex, p) /\ ULess(p, tasks[k].toIndex)

\* The indices the partition is probed at: the small ones and the largest ones.
Probes ==
    {U32(n) : n \in 0 .. MaxTexels + 2} \cup {USub(UMax, U32(n)) : n \in 0 .. MaxThreads + 1}

\* C1: once ParallelFor has returned, every index below count lies in the
\* range of exactly one callback invocation, and no index from count on lies
\* in any.
C1_ChunksPartitionRange ==
    Joined =>
        \A p \in Probes :
            Cardinality({k \in Invoked : InRange(p, k)}) = IF ULess(p, count) THEN 1 ELSE 0

\* The same for the calls in which count + numThreads - 1 does not wrap around.
ChunksPartitionUnwrappedRange ==
    (Joined /\ ULeq(count, UAdd(count, U32(numThreads - 1)))) =>
        \A p \in Probes :
            Cardinality({k \in Invoked : InRange(p, k)}) = IF ULess(p, count) THEN 1 ELSE 0

\* C2: ParallelFor returns only when all numThreads tasks have been posted and
\* each has finished (returned or thrown); and when FilterIndirectLight has
\* swapped the buffers, every texel of the chart has been through the loop.
C2_ReturnsAfterAllChunks ==
    /\ Joined =>
          /\ Len(tasks) = numThreads
          /\ \A k \in Posted : tasks[k].status \in {"done", "failed"}
    /\ (stage = "FilterIndirectLight" /\ pc = "returned") => hist.visited = Texels

\* C2's case: a call on several threads has returned although a callback threw.
C2_ReturnedAfterFailure ==
    /\ pc = "returned"
    /\ numThreads >= 2
    /\ \E k \in Posted : tasks[k].status = "failed"

\* C3: ParallelFor does not return normally when a callback has thrown.
C3_FailurePropagates ==
    Joined => \A k \in Posted : tasks[k].status # "failed"

\* The configurations the entry points assert against.
ConfigViolation ==
    \/ stage = "FilterIndirectLight" /\ kernelRadius_ \notin {0, 1, 2}
    \/ stage = "BakeIndirectLight" /\ numBounces_ > MaxBounces

\* C4: a texel with geometry id 0 holds after the call what it held before it:
\* bakedDirect.light_ across BakeDirectionalLight, bakedIndirect.light_ across
\* BakeIndirectLight and across FilterIndirectLight (stated for the calls with
\* a supported kernel radius and bounce count).
C4_EmptyTexelsUntouched ==
    (pc = "returned" /\ ~ConfigViolation) =>
        \A i \in Texels :
            geometryIds_[i] = 0 =>
                /\ stage = "BakeDirectionalLight" => bakedDirect[i] = hist.direct0[i]
                /\ stage \in {"BakeIndirectLight", "FilterIndirectLight"} =>
                      bakedIndirect.light_[i] = hist.light0[i]

\* C5: FilterIndirectLight with kernelRadius = 0 leaves bakedIndirect.light_
\* as it was.
C5_RadiusZeroIsIdentity ==
    (stage = "FilterIndirectLight" /\ kernelRadius_ = 0 /\ pc = "returned") =>
        bakedIndirect.light_ = hist.light0

\* The call of BakeIndirectLight has returned and no bounce of it recorded a
\* sample: numBounces = 0, or every ray missed.
NoContribution ==
    /\ stage = "BakeIndirectLight"
    /\ pc = "returned"
    /\ (numBounces_ = 0 \/ ~hist.anyHit)

\* C6 as claimed: with no contribution, every component of every element of
\* bakedIndirect.light_ is as before the call.
C6_NoContributionLeavesBufferUnchanged ==
    NoContribution => bakedIndirect.light_ = hist.light0

\* C6 as amended: with no contribution, the colour of every texel is as before
\* the call; the fourth component has 1 added at every texel with geometry and
\* is unchanged at the others.
C6_NoContributionAddsOnlyAlpha ==
    NoContribution =>
        \A i \in Texels :
            /\ bakedIndirect.light_[i].rgb = hist.light0[i].rgb
            /\ bakedIndirect.light_[i].a =
                  hist.light0[i].a + (IF geometryIds_[i] # 0 THEN 1 ELSE 0)

\* C6's case: all rays of a call with bounces missed, on a chart with geometry.
C6_AllRaysMissed ==
    /\ NoContribution
    /\ numBounces_ > 0
    /\ \E i \in Texels : geometryIds_[i] # 0

\* The index of a buffer element lies in the range of task k.
Owns(k, e) == InRange(U32(e[2]), k)

\* C7: no buffer element written by one task is read or written by another;
\* every task writes inside its own range only; and the tasks of the filter
\* read light_ only and write lightSwap_ only.
C7_NoSharedElement ==
    /\ \A a \in Posted : \A b \in Posted \ {a} :
          tasks[a].writes \cap (tasks[b].reads \cup tasks[b].writes) = {}
    /\ \A k \in Posted : \A e \in tasks[k].writes : Owns(k, e)
    /\ stage = "FilterIndirectLight" =>
          \A k \in Posted :
              /\ \A e \in tasks[k].reads : e[1] = "bakedIndirect.light_"
              /\ \A e \in tasks[k].writes : e[1] = "bakedIndirect.lightSwap_"

\* C7's case: a filter task has read a texel that another task owns and has
\* written its output for.
C7_ReadNeighbourOfOtherTask ==
    /\ stage = "FilterIndirectLight"
    /\ \E a \in Posted : \E b \in Posted \ {a} :
          \E e \in tasks[a].reads :
              /\ Owns(b, e)
              /\ LightSwap(e[2]) \in tasks[b].writes

\* C8: a call with a configuration violation aborts at once: it posts no task
\* and leaves light_ and lightSwap_ as they were.
C8_ConfigViolationAborts ==
    ConfigViolation =>
        /\ pc \in {"entry", "abort"}
        /\ tasks = <<>>
        /\ bakedIndirect = [light_ |-> hist.light0, lightSwap_ |-> hist.swap0]

\* C9: the accumulation loop of every texel produces the fold of the pairs the
\* texel recorded, and reads no slot the texel did not write.
C9_FoldsRecordedPairs ==
    /\ hist.misfolded.added = hist.misfolded.folded
    /\ hist.misfolded.fresh

\* C10: every range passed to the callback has fromIndex <= toIndex <= count.
C10_RangesWellFormed ==
    \A k \in Invoked :
        /\ ULeq(tasks[k].fromIndex, tasks[k].toIndex)
        /\ ULeq(tasks[k].toIndex, count)

==========================================================================
